---- MODULE Spec2Model ----
\* The reward tool of radicle-client-tools (src/reward/src/lib.rs): the three
\* commands create, claim and discover over one repository's notes under
\* refs/notes/radicle/rewards.  Each command is one action; `last` records what
\* the latest invocation did (its result, the I/O it performed in order, and
\* its output), `notes` is the note store, `written` remembers the payload of
\* the latest successful create per commit.
EXTENDS Integers, Sequences, FiniteSets, TLC

VARIABLES notes, written, last

vars == <<notes, written, last>>

\* ---------------------------------------------------------------- bounds

\* Number of commits of the repository.
NumCommits == 2

\* ------------------------------------------------------- program constants

\* Width of the format specification "0x{:0<32}".
PadWidth == 32

\* Length of Oid::to_string(): a SHA-1 in hexadecimal.
OidHexLen == 40

\* ---------------------------------------------------------------- strings

HexDigits == <<"0", "1", "2", "3", "4", "5", "6", "7",
               "8", "9", "a", "b", "c", "d", "e", "f">>

\* hex::encode of one byte: two lowercase digits, high nibble first.
HexByte(b) == HexDigits[(b \div 16) + 1] \o HexDigits[(b % 16) + 1]

RECURSIVE HexEncode(_)
\* hex::encode of a byte sequence: a string.
HexEncode(bytes) ==
    IF bytes = <<>> THEN ""
    ELSE HexByte(Head(bytes)) \o HexEncode(Tail(bytes))

\* The z-base-32 alphabet; a digit's value is its position minus one.
ZBase32Alphabet ==
    <<"y", "b", "n", "d", "r", "f", "g", "8", "e", "j", "k", "m", "c", "p", "q", "x",
      "o", "t", "1", "u", "w", "i", "s", "z", "a", "3", "4", "5", "h", "7", "6", "9">>

IsZBase32Digit(ch) == \E i \in 1..Len(ZBase32Alphabet) : ZBase32Alphabet[i] = ch

DigitValue(ch) == (CHOOSE i \in 1..Len(ZBase32Alphabet) : ZBase32Alphabet[i] = ch) - 1

\* The five bits of a digit value, most significant first.
DigitBits(v) ==
    <<(v \div 16) % 2, (v \div 8) % 2, (v \div 4) % 2, (v \div 2) % 2, v % 2>>

RECURSIVE TextBits(_)
TextBits(text) ==
    IF text = <<>> THEN <<>>
    ELSE DigitBits(DigitValue(Head(text))) \o TextBits(Tail(text))

RECURSIVE BitsValue(_)
\* The number a bit sequence denotes, most significant bit first.
BitsValue(bits) ==
    IF bits = <<>> THEN 0
    ELSE 2 * BitsValue(SubSeq(bits, 1, Len(bits) - 1)) + bits[Len(bits)]

RECURSIVE PackBytes(_)
\* Bits packed into bytes, most significant first; the last byte is filled up
\* with zero bits on the right.
PackBytes(bits) ==
    IF bits = <<>> THEN <<>>
    ELSE IF Len(bits) < 8
         THEN <<BitsValue(bits \o [i \in 1..(8 - Len(bits)) |-> 0])>>
         ELSE <<BitsValue(SubSeq(bits, 1, 8))>> \o PackBytes(SubSeq(bits, 9, Len(bits)))

\* zbase32::decode_full_bytes_str (the text is given as the sequence of its
\* characters): every digit contributes five bits; a
\* character outside the alphabet is an error.
DecodeFullBytesStr(text) ==
    IF \A i \in 1..Len(text) : IsZBase32Digit(text[i])
    THEN [ok |-> TRUE, bytes |-> PackBytes(TextBits(text))]
    ELSE [ok |-> FALSE, bytes |-> <<>>]

RECURSIVE Zeros(_)
\* A string of n zeros.
Zeros(n) == IF n <= 0 THEN "" ELSE "0" \o Zeros(n - 1)

\* format!("0x{:0<32}", body): fill '0', left-aligned, minimum width 32; a body
\* of 32 characters or more is left as it is.
FormatField(body) ==
    "0x" \o (IF Len(body) >= PadWidth THEN body
             ELSE body \o Zeros(PadWidth - Len(body)))

\* The width of a rendered field's body: what follows "0x".
BodyWidth(field) == Len(field) - 2

\* ------------------------------------------------------------- repository

\* Commits are numbered in commit order; commit c has the single parent c - 1,
\* so the commits after HEAD are not reachable from it.
Commits == 1..NumCommits

\* An object id that names no commit of the repository.
GhostOid == NumCommits + 1

Oids == Commits \cup {GhostOid}

Parents(c) == IF c = 1 THEN {} ELSE {c - 1}

RECURSIVE Ancestors(_)
\* The commits reachable from c, c included.
Ancestors(c) ==
    {c} \cup UNION {Ancestors(p) : p \in Parents(c)}

\* Oid::to_string(): forty hexadecimal digits, different for each commit.
RECURSIVE OidDigits(_, _)
OidDigits(c, i) ==
    IF i > OidHexLen THEN "" ELSE HexDigits[((c * i) % 16) + 1] \o OidDigits(c, i + 1)

OidHexTable == [c \in Oids |-> OidDigits(c, 1)]

OidHex(c) == OidHexTable[c]

\* Accounts: the one the keystore file holds, the one the Ledger holds.
KeystoreAddr == "0xaaaa"

LedgerAddr == "0xbbbb"

Addrs == {KeystoreAddr, LedgerAddr}

OrgAddr == "0xcccc"

\* Project ids given on the command line: "b" is z-base-32, "l" is not.
ProjectIds == {<<"b">>, <<"l">>}

\* ------------------------------------------------------------------ notes

\* What a commit holds under NOTES_REF: nothing, a text that is no JSON of a
\* Puzzle, the JSON of a Puzzle without v, r, s, or the JSON of a Proof.
NoNote == [kind |-> "none"]

Malformed == [kind |-> "malformed"]

\* struct Puzzle.
Puzzle(org, contributor, commit, project) ==
    [org |-> org, contributor |-> contributor, commit |-> commit, project |-> project]

\* signer.sign_message: the signature is a function of the key and the message.
Signature(addr, message) == [signer |-> addr, message |-> message]

\* struct Proof: the Puzzle's fields and the signature (v, r, s).
Proof(puzzle, sig) ==
    [kind |-> "proof", org |-> puzzle.org, contributor |-> puzzle.contributor,
     commit |-> puzzle.commit, project |-> puzzle.project, sig |-> sig]

\* A note written by another tool: a Puzzle's JSON, no signature.
BarePuzzle(contributor, c) ==
    [kind |-> "puzzle", org |-> OrgAddr, contributor |-> contributor,
     commit |-> FormatField(OidHex(c)), project |-> FormatField("08")]

\* serde_json::from_str::<Puzzle>: unknown fields are ignored, so a Proof's
\* JSON decodes as a Puzzle too.
DecodesAsPuzzle(note) == note.kind \in {"puzzle", "proof"}

\* serde_json::from_str::<Proof>: v, r and s are required.
DecodesAsProof(note) == note.kind = "proof"

\* repo.find_note(Some(NOTES_REF), oid) is Ok.
HasNote(store, c) == store[c] # NoNote

\* repo.notes(Some(NOTES_REF)): the annotated commits, in the order of their ids.
RECURSIVE NotesFrom(_, _)
NotesFrom(store, c) ==
    IF c > NumCommits THEN <<>>
    ELSE (IF HasNote(store, c) THEN <<c>> ELSE <<>>) \o NotesFrom(store, c + 1)

NoteList(store) == NotesFrom(store, 1)

\* WriteNote without force: a commit that holds a note keeps it.
WriteNoteKeep(store, c, msg) ==
    IF HasNote(store, c) THEN store ELSE [store EXCEPT ![c] = msg]

\* repo.note(.., force = true): the note replaces what the commit held.
WriteNote(store, c, msg) == [store EXCEPT ![c] = msg]

\* ------------------------------------------------------ invocation records

\* What an invocation did: `trace` is the I/O it performed, in order; `wallet`
\* is what it found configured when it came to choose the signer ("keystore",
\* "ledger" or "none"), "unread" if it ended before.  For create: `target` is
\* the commit written, `replaced` whether it held a note before.  For claim:
\* `signer` is the signer's address, `enumerated` whether the notes were
\* read, `offered` the items of the prompt, `choice` the operator's pick (0:
\* none), `proof` the Proof decoded at the end.  For discover: `head` is HEAD's
\* target, `unreadable` the commits without a readable summary, `listed` the
\* commits printed.
Idle ==
    [op |-> "none", wallet |-> "unread",
     result |-> "ok", missing |-> "", trace |-> <<>>,
     target |-> 0, replaced |-> FALSE,
     signer |-> "none", enumerated |-> FALSE, offered |-> <<>>, choice |-> 0,
     proof |-> NoNote,
     head |-> 0, unreadable |-> {}, listed |-> <<>>]

\* ----------------------------------------------------------------- create

\* What the signer and the serializer may do to one create_puzzle call.
SignOutcomes == {"ok", "sign_fails", "bad_signature", "serialize_fails"}

\* sig.verify(message, address): the signature recovers to the address.
Verifies(sig, message, addr) == sig.signer = addr /\ sig.message = message

\* The two rendered fields, computed once per commit and per project id.
CommitField == [c \in Commits |-> FormatField(OidHex(c))]

ProjectField ==
    [p \in ProjectIds |->
        LET decoded == DecodeFullBytesStr(p)
        IN  [ok |-> decoded.ok, field |-> FormatField(HexEncode(decoded.bytes))]]

\* create_puzzle, lines 238-250, called with commit.id().to_string(): commit
\* and project are rendered and the Puzzle is built; a project id that is not
\* z-base-32 panics in unwrap().
build_puzzle(org, contributor, c, project) ==
    [ok |-> ProjectField[project].ok,
     puzzle |-> Puzzle(org, contributor, CommitField[c], ProjectField[project].field)]

\* create_puzzle, lines 252-268: the Puzzle's JSON is signed, the signature
\* checked against the signer's address, and the Proof's JSON returned.
sign_puzzle(signer, puzzle, outcome) ==
    LET sig == IF outcome = "bad_signature"
               THEN Signature("0x0000", puzzle)
               ELSE Signature(signer, puzzle)
    IN  IF outcome = "sign_fails"
        THEN [result |-> "SignFailure", msg |-> NoNote]
        ELSE IF ~Verifies(sig, puzzle, signer)
        THEN [result |-> "VerifyError", msg |-> NoNote]
        ELSE IF outcome = "serialize_fails"
        THEN [result |-> "SerializeFailure", msg |-> NoNote]
        ELSE [result |-> "ok", msg |-> Proof(puzzle, sig)]

\* An invocation of create that ends without writing.
CreateFails(rec, result, missing) ==
    /\ last' = [rec EXCEPT !.op = "create", !.result = result, !.missing = missing]
    /\ UNCHANGED <<notes, written>>

\* CreateNote with the note written before the committer identity is read.
CreateNoteEarly(rec, c, msg) ==
    \E identityOk \in BOOLEAN :
        /\ notes' = WriteNote(notes, c, msg)
        /\ written' = IF identityOk THEN [written EXCEPT ![c] = msg] ELSE written
        /\ last' = IF identityOk
                   THEN [rec EXCEPT !.op = "create", !.target = c,
                                    !.replaced = HasNote(notes, c),
                                    !.trace = @ \o <<"signature", "note">>]
                   ELSE [rec EXCEPT !.op = "create", !.result = "GitError",
                                    !.trace = @ \o <<"note", "signature">>]

\* create, lines 189-204: the committer identity, then the note on the commit.
CreateNote(rec, c, msg) ==
    \E identityOk \in BOOLEAN :
        IF ~identityOk
        THEN CreateFails([rec EXCEPT !.trace = @ \o <<"signature">>], "GitError", "")
        ELSE /\ notes' = WriteNote(notes, c, msg)
             /\ written' = [written EXCEPT ![c] = msg]
             /\ last' = [rec EXCEPT !.op = "create", !.target = c,
                                    !.replaced = HasNote(notes, c),
                                    !.trace = @ \o <<"signature", "note">>]

\* create, lines 178 and 181: create_puzzle with the signer, the contributor
\* and org addresses and the project id of the options.
CreateSign(rec, c, signer) ==
    \E contributor \in Addrs, project \in ProjectIds :
        LET built == build_puzzle(OrgAddr, contributor, c, project)
        IN  IF ~built.ok
            THEN CreateFails(rec, "PanicDecode", "")
            ELSE \E outcome \in SignOutcomes :
                    LET made   == sign_puzzle(signer, built.puzzle, outcome)
                        signed == [rec EXCEPT !.trace = @ \o <<"sign">>]
                    IN  IF made.result # "ok"
                        THEN CreateFails(signed, made.result, "")
                        ELSE CreateNote(signed, c, made.msg)

\* CreateSigner with the Ledger connected before the derivation path is
\* looked at.
CreateSignerEager(rec, c) ==
    \E keystore \in BOOLEAN :
        IF keystore
        THEN \E passwordOk \in BOOLEAN :
            LET asked == [rec EXCEPT !.wallet = "keystore",
                                     !.trace = @ \o <<"password", "decrypt">>]
            IN  IF passwordOk
                THEN CreateSign(asked, c, KeystoreAddr)
                ELSE CreateFails(asked, "DecryptError", "")
        ELSE \E ledger \in BOOLEAN :
            LET asked == [rec EXCEPT !.trace = @ \o <<"ledger">>]
            IN  IF ledger
                THEN \E ledgerOk \in BOOLEAN :
                    IF ledgerOk
                    THEN CreateSign([asked EXCEPT !.wallet = "ledger"], c, LedgerAddr)
                    ELSE CreateFails([asked EXCEPT !.wallet = "ledger"], "LedgerError", "")
                ELSE CreateFails([asked EXCEPT !.wallet = "none"], "ArgMissing", "wallet")

\* create, lines 176-187: the keystore if one is given, else the Ledger if a
\* derivation path is given (it is looked at only then), else the
\* missing-argument error.
CreateSigner(rec, c) ==
    \E keystore \in BOOLEAN :
        IF keystore
        THEN \E passwordOk \in BOOLEAN :
            LET asked == [rec EXCEPT !.wallet = "keystore",
                                     !.trace = @ \o <<"password", "decrypt">>]
            IN  IF passwordOk
                THEN CreateSign(asked, c, KeystoreAddr)
                ELSE CreateFails(asked, "DecryptError", "")
        ELSE \E ledger \in BOOLEAN :
            IF ledger
            THEN \E ledgerOk \in BOOLEAN :
                LET asked == [rec EXCEPT !.wallet = "ledger", !.trace = @ \o <<"ledger">>]
                IN  IF ledgerOk
                    THEN CreateSign(asked, c, LedgerAddr)
                    ELSE CreateFails(asked, "LedgerError", "")
            ELSE CreateFails([rec EXCEPT !.wallet = "none"], "ArgMissing", "wallet")

\* create, lines 168-174: the repository is opened and the commit looked up.
CreateOpen ==
    \E opens \in BOOLEAN :
        IF ~opens
        THEN CreateFails([Idle EXCEPT !.trace = <<"open">>], "PanicOpen", "")
        ELSE \E oid \in Oids :
            LET looked == [Idle EXCEPT !.trace = <<"open", "find_commit">>]
            IN  IF oid \notin Commits
                THEN CreateFails(looked, "CommitNotExisting", "")
                ELSE CreateSigner(looked, oid)

\* create, lines 150-166: the options commit, contributor, org, project and
\* repo are checked in this order (given or not); the first one missing ends
\* the invocation.  An option's value is drawn where the code first uses it.
Create ==
    \E commit \in BOOLEAN :
        IF ~commit THEN CreateFails(Idle, "ArgMissing", "commit")
        ELSE \E contributor \in BOOLEAN :
        IF ~contributor THEN CreateFails(Idle, "ArgMissing", "contributor")
        ELSE \E org \in BOOLEAN :
        IF ~org THEN CreateFails(Idle, "ArgMissing", "org")
        ELSE \E project \in BOOLEAN :
        IF ~project THEN CreateFails(Idle, "ArgMissing", "project")
        ELSE \E repo \in BOOLEAN :
        IF ~repo THEN CreateFails(Idle, "ArgMissing", "repo")
        ELSE CreateOpen

\* ------------------------------------------------------------------ claim

RECURSIVE CollectAll(_, _, _)
\* Collect without the comparison of the contributor with the signer.
CollectAll(store, list, addr) ==
    IF list = <<>> THEN [ok |-> TRUE, commits |-> <<>>]
    ELSE LET c == Head(list)
         IN  IF ~DecodesAsPuzzle(store[c]) THEN [ok |-> FALSE, commits |-> <<>>]
             ELSE LET rest == CollectAll(store, Tail(list), addr)
                  IN  IF ~rest.ok THEN rest
                      ELSE [ok |-> TRUE, commits |-> <<c>> \o rest.commits]

RECURSIVE CollectSkipping(_, _, _)
\* Collect with a note that does not decode skipped instead of failing.
CollectSkipping(store, list, addr) ==
    IF list = <<>> THEN [ok |-> TRUE, commits |-> <<>>]
    ELSE LET c    == Head(list)
             rest == CollectSkipping(store, Tail(list), addr)
         IN  [ok |-> TRUE,
              commits |-> (IF DecodesAsPuzzle(store[c]) /\ addr = store[c].contributor
                           THEN <<c>> ELSE <<>>) \o rest.commits]

RECURSIVE Collect(_, _, _)
\* claim, lines 69-79: every note is read and decoded as a Puzzle, in the
\* order of the enumeration; a note that does not decode ends the loop with
\* the error, a Puzzle of the signer's adds its commit to `commits`.
Collect(store, list, addr) ==
    IF list = <<>> THEN [ok |-> TRUE, commits |-> <<>>]
    ELSE LET c == Head(list)
         IN  IF ~DecodesAsPuzzle(store[c]) THEN [ok |-> FALSE, commits |-> <<>>]
             ELSE LET rest == Collect(store, Tail(list), addr)
                  IN  IF ~rest.ok THEN rest
                      ELSE [ok |-> TRUE,
                            commits |-> (IF addr = store[c].contributor
                                         THEN <<c>> ELSE <<>>) \o rest.commits]

\* An invocation of claim; claim never writes.
ClaimEnds(rec) ==
    /\ last' = [rec EXCEPT !.op = "claim"]
    /\ UNCHANGED <<notes, written>>

\* claim, lines 92-103: the selected commit's note is read again and decoded
\* as a Proof.
ClaimProof(rec, c) ==
    IF DecodesAsProof(notes[c])
    THEN ClaimEnds([rec EXCEPT !.trace = @ \o <<"find_note">>, !.proof = notes[c]])
    ELSE ClaimEnds([rec EXCEPT !.trace = @ \o <<"find_note">>, !.result = "JsonError"])

\* ClaimSelect with no choice taken for the first item.
ClaimSelectFirst(rec, commits) ==
    IF commits = <<>>
    THEN ClaimEnds([rec EXCEPT !.result = "PromptError"])
    ELSE \E choice \in 0..Len(commits) :
            LET shown == [rec EXCEPT !.trace = @ \o <<"select">>, !.offered = commits,
                                     !.choice = choice]
            IN  ClaimProof(shown, commits[IF choice = 0 THEN 1 ELSE choice])

\* claim, lines 81-90: Select refuses an empty list of items with an error;
\* otherwise the operator picks one item or none (choice 0).
ClaimSelect(rec, commits) ==
    IF commits = <<>>
    THEN ClaimEnds([rec EXCEPT !.result = "PromptError"])
    ELSE \E choice \in 0..Len(commits) :
            LET shown == [rec EXCEPT !.trace = @ \o <<"select">>, !.offered = commits,
                                     !.choice = choice]
            IN  IF choice = 0
                THEN ClaimEnds([shown EXCEPT !.result = "NoSelection"])
                ELSE ClaimProof(shown, commits[choice])

\* claim, lines 69-79.
ClaimEnumerate(rec) ==
    LET found == Collect(notes, NoteList(notes), rec.signer)
        read  == [rec EXCEPT !.trace = @ \o <<"notes">>, !.enumerated = TRUE]
    IN  IF ~found.ok
        THEN ClaimEnds([read EXCEPT !.result = "JsonError"])
        ELSE ClaimSelect(read, found.commits)

\* claim, lines 54-67: the signer's address.
ClaimSigner(rec) ==
    \E keystore \in BOOLEAN :
        IF keystore
        THEN \E passwordOk \in BOOLEAN :
            LET asked == [rec EXCEPT !.wallet = "keystore",
                                     !.trace = @ \o <<"password", "decrypt">>]
            IN  IF passwordOk
                THEN ClaimEnumerate([asked EXCEPT !.signer = KeystoreAddr])
                ELSE ClaimEnds([asked EXCEPT !.result = "DecryptError"])
        ELSE \E ledger \in BOOLEAN :
            IF ledger
            THEN \E ledgerOk \in BOOLEAN :
                LET asked == [rec EXCEPT !.wallet = "ledger", !.trace = @ \o <<"ledger">>]
                IN  IF ledgerOk
                    THEN ClaimEnumerate([asked EXCEPT !.signer = LedgerAddr])
                    ELSE ClaimEnds([asked EXCEPT !.result = "LedgerError"])
            ELSE ClaimEnds([rec EXCEPT !.wallet = "none", !.result = "ArgMissing",
                                       !.missing = "wallet"])

\* claim, lines 44-52: the repository path, then the repository.
Claim ==
    \E repo \in BOOLEAN :
        IF ~repo
        THEN ClaimEnds([Idle EXCEPT !.result = "ArgMissing", !.missing = "repo"])
        ELSE \E opens \in BOOLEAN :
                LET opened == [Idle EXCEPT !.trace = <<"open">>]
                IN  IF ~opens
                    THEN ClaimEnds([opened EXCEPT !.result = "OpenFailed"])
                    ELSE ClaimSigner(opened)

\* --------------------------------------------------------------- discover

RECURSIVE NewestFirst(_)
\* A set of commits, the latest first.
NewestFirst(S) ==
    IF S = {} THEN <<>>
    ELSE LET m == CHOOSE x \in S : \A y \in S : y <= x
         IN  <<m>> \o NewestFirst(S \ {m})

\* repo.revwalk() with HEAD's target pushed: the commits reachable from it.
RevWalk(head) == NewestFirst(Ancestors(head))

\* discover, lines 127-136: the commits of the walk for which find_note fails.
Unnoted(store, walk) == SelectSeq(walk, LAMBDA c : ~HasNote(store, c))

RECURSIVE PrintCommits(_, _)
\* discover, lines 139-142, and format_commit: each commit is printed with
\* its summary, in order; the first commit whose summary cannot be read ends
\* the loop with the error NotValidEncoding.
PrintCommits(oids, unreadable) ==
    IF oids = <<>> THEN [ok |-> TRUE, listed |-> <<>>]
    ELSE IF Head(oids) \in unreadable THEN [ok |-> FALSE, listed |-> <<>>]
    ELSE LET rest == PrintCommits(Tail(oids), unreadable)
         IN  [ok |-> rest.ok, listed |-> <<Head(oids)>> \o rest.listed]

\* An invocation of discover; discover never writes.
DiscoverEnds(rec) ==
    /\ last' = [rec EXCEPT !.op = "discover"]
    /\ UNCHANGED <<notes, written>>

\* The elements of a sequence.
Range(q) == {q[i] : i \in 1..Len(q)}

\* discover: the history is read as it stands at the invocation: where HEAD
\* points (0 for no HEAD) and, of the commits to print, which have no
\* readable summary.
Discover ==
    \E repo \in BOOLEAN :
        IF ~repo
        THEN DiscoverEnds([Idle EXCEPT !.result = "ArgMissing", !.missing = "repo"])
        ELSE \E opens \in BOOLEAN :
            IF ~opens
            THEN DiscoverEnds([Idle EXCEPT !.result = "PanicOpen", !.trace = <<"open">>])
            ELSE \E head \in 0..NumCommits :
                IF head = 0
                THEN DiscoverEnds([Idle EXCEPT !.result = "NoHead",
                                               !.trace = <<"open", "head">>])
                ELSE LET oids == Unnoted(notes, RevWalk(head))
                     IN  \E unreadable \in SUBSET Range(oids) :
                         LET printed == PrintCommits(oids, unreadable)
                         IN  DiscoverEnds([Idle EXCEPT
                                !.result = IF printed.ok THEN "ok" ELSE "NotValidEncoding",
                                !.trace = <<"open", "head", "revwalk">>,
                                !.head = head, !.unreadable = unreadable,
                                !.listed = printed.listed])

\* ---------------------------------------------------------- specification

\* What a commit may hold before the tool is first run.
InitialNotes(c) == {NoNote, Malformed, BarePuzzle(KeystoreAddr, c)}

Init ==
    /\ notes \in {n \in [Commits -> UNION {InitialNotes(c) : c \in Commits}] :
                    \A c \in Commits : n[c] \in InitialNotes(c)}
    /\ written = [c \in Commits |-> NoNote]
    /\ last = Idle

Next == Create \/ Claim \/ Discover

Spec == Init /\ [][Next]_vars

\* ----------------------------------------------------------------- claims

\* The latest invocation performed the I/O step `event`.
Did(event) == \E i \in 1..Len(last.trace) : last.trace[i] = event

\* The commits reachable from the HEAD of the latest discover that hold no note.
Bare == {c \in Ancestors(last.head) : notes[c] = NoNote}

\* The commits whose note is a Puzzle of the signer of the latest claim.
Claimable ==
    {c \in Commits : DecodesAsPuzzle(notes[c]) /\ notes[c].contributor = last.signer}

\* Some note of the store does not decode as a Puzzle.
SomeMalformed == \E c \in Commits : HasNote(notes, c) /\ ~DecodesAsPuzzle(notes[c])

\* C1: a discover that walks the history lists no commit that holds a note,
\* and lists every commit reachable from HEAD that holds none (a commit whose
\* summary cannot be read is not asked to be listed).
C1_DiscoverListsExactlyBare ==
    (last.op = "discover" /\ last.head # 0) =>
        /\ Range(last.listed) \subseteq Bare
        /\ Bare \ last.unreadable \subseteq Range(last.listed)

\* C2: the items claim offers for selection are exactly the commits whose note
\* has the signer's address as contributor, and a Proof that claim returns
\* has the signer's address as contributor.
C2_ClaimOffersSignersNotes ==
    last.op = "claim" =>
        /\ Did("select") => Range(last.offered) = Claimable
        /\ last.proof # NoNote => last.proof.contributor = last.signer

C2_Witness ==
    /\ last.op = "claim" /\ last.result = "ok" /\ last.proof # NoNote
    /\ Range(last.offered) # {}
    /\ \E c \in Commits : DecodesAsPuzzle(notes[c]) /\ notes[c].contributor # last.signer

\* C3: a commit's note is the payload of the latest successful create on that
\* commit, and a step changes the note of commit c only if it is a successful
\* create on c.
C3_OverwriteOnWrite ==
    /\ [](\A c \in Commits : written[c] # NoNote => notes[c] = written[c])
    /\ [][\A c \in Commits :
            notes'[c] # notes[c] =>
                last'.op = "create" /\ last'.result = "ok" /\ last'.target = c]_vars

C3_Witness ==
    /\ last.op = "create" /\ last.result = "ok" /\ last.replaced
    /\ notes[last.target] = written[last.target]
    /\ \E c \in Commits : c # last.target /\ written[c] # NoNote

\* C4, as claimed: with neither a keystore nor a derivation path configured,
\* create and claim fail with the missing-argument error having performed no
\* I/O at all.
C4_NoWalletFailsBeforeAnyAccess ==
    (last.op \in {"create", "claim"} /\ last.wallet = "none") =>
        last.result = "ArgMissing" /\ last.missing = "wallet" /\ last.trace = <<>>

\* C4, amended: with neither configured, an invocation that comes to choose
\* its signer fails with the missing-argument error after it opened the
\* repository (create: and looked the commit up) and before anything else.
C4_NoWalletFailsAfterOpen ==
    (last.op \in {"create", "claim"} /\ last.wallet = "none") =>
        /\ last.result = "ArgMissing" /\ last.missing = "wallet"
        /\ last.trace = IF last.op = "create" THEN <<"open", "find_commit">>
                        ELSE <<"open">>

C4_Witness ==
    last.op = "create" /\ last.wallet = "none" /\ last.result = "ArgMissing"

\* C5: a create that fails leaves every note as it was, and a create that
\* fails on its project id has not asked the signer to sign.
C5_FailedCreateWritesNothing ==
    /\ [][(last'.op = "create" /\ last'.result # "ok") => notes' = notes]_vars
    /\ []((last.op = "create" /\ last.result = "PanicDecode") => ~Did("sign"))

C5_Witness ==
    /\ last.op = "create" /\ last.result = "GitError" /\ Did("sign")
    /\ \E c \in Commits : written[c] # NoNote

\* C6, as claimed: when the operator picks none of the offered items, claim
\* ends without an error.
C6_DeclineIsNoError ==
    (last.op = "claim" /\ Did("select") /\ last.choice = 0) => last.result = "ok"

\* C6, amended: when the operator picks none of the offered items, claim ends
\* with the error "User did not select any commit" and no Proof.
C6_DeclineIsAnError ==
    (last.op = "claim" /\ Did("select") /\ last.choice = 0) =>
        last.result = "NoSelection" /\ last.proof = NoNote

C6_Witness ==
    last.op = "claim" /\ Did("select") /\ last.choice = 0 /\ Len(last.offered) > 0

\* C7: when every note decodes and none has the signer's address as
\* contributor, claim ends without an error and without the prompt.
C7_NoMatchIsNoError ==
    (last.op = "claim" /\ last.enumerated /\ ~SomeMalformed /\ Claimable = {}) =>
        last.result = "ok" /\ ~Did("select")

\* C8: when some note does not decode as a Puzzle, claim ends with an error,
\* without the prompt and without a Proof.
C8_MalformedNoteIsFatal ==
    (last.op = "claim" /\ SomeMalformed) =>
        /\ last.result # "ok"
        /\ ~Did("select") /\ last.offered = <<>>
        /\ last.proof = NoNote

C8_Witness ==
    /\ last.op = "claim" /\ last.enumerated /\ last.result = "JsonError"
    /\ Claimable # {}
    /\ \E c \in Claimable, d \in Commits : c < d /\ notes[d] = Malformed

\* C9: when discover meets commits whose summary cannot be read, it reports
\* the data error and still lists every other reachable commit without a note.
C9_DiscoverContinues ==
    (last.op = "discover" /\ last.head # 0 /\ last.unreadable # {}) =>
        /\ last.result = "NotValidEncoding"
        /\ Range(last.listed) = Bare \ last.unreadable

\* C10: in the Proof a create writes, the bodies of commit and project have
\* the same width.
C10_FieldsSameWidth ==
    (last.op = "create" /\ last.result = "ok") =>
        BodyWidth(written[last.target].commit) = BodyWidth(written[last.target].project)

====
